---- MODULE Spec2Model ----
(***************************************************************************)
(* Model of the episode store of teanga (src/teanga/storage/manager.py):   *)
(* EpisodeMetadata, its processing_history ledger, and EpisodeManager,     *)
(* which loads metadata.json, mutates the in-memory metadata and rewrites  *)
(* the whole file on every change.                                         *)
(*                                                                         *)
(* One episode identity is modelled; its metadata.json is the variable     *)
(* `file`.  A file's content is a sequence of JSON tokens: an opening      *)
(* brace, one token per key in the order model_dump emits them, a closing  *)
(* brace.  A write that stops early leaves a proper prefix on disk.        *)
(*                                                                         *)
(* Optional values (Python None or a value) are sequences of length 0 or 1. *)
(* The wall clock (datetime.utcnow) is the variable `now`; every read may  *)
(* see the same instant as the previous read or a later one.               *)
(*                                                                         *)
(* Spec is the store driven by a single writer.  The functions that do not *)
(* touch metadata.json have specifications of their own, which apply them  *)
(* to inputs from small sets and record every call with its result:        *)
(* SpecIdentity (create_episode_id), SpecPaths (get_media_path ..          *)
(* get_analysis_path and the directories TeangaConfig makes for them) and  *)
(* SpecChecksum (compute_file_checksum).                                   *)
(*                                                                         *)
(* SpecMulti has two managers writing one metadata.json with no lock       *)
(* between them.  SpecAbsent starts from an identity nothing was stored    *)
(* for.  SpecDrivers runs main() of scripts/try_audio_pipeline.py and of   *)
(* scripts/try_transcription.py, statement by statement, on the store and  *)
(* the path resolver; the variable `drv` is the position of the run.       *)
(***************************************************************************)
EXTENDS Integers, Sequences, FiniteSets, TLC

(* ------------------------------ bounds --------------------------------- *)

\* Largest clock reading.
MaxTime == 1

\* Longest processing_history a manager is driven to.
MaxHist == 2

\* Most injected faults (I/O errors and crashes in mid-operation) per run.
MaxFaults == 1

(* ------------------------------ inputs --------------------------------- *)

Managers == {"m1", "m2"}

\* The manager handles a single-writer run uses.
Writers == {"m1"}

EPISODE_ID == "rnag_nuacht_20251018_1800"

\* The statuses named by ProcessingStep.status' description.
ValidStatuses == {"success", "failed", "in_progress"}

\* add_processing_step arguments callers pass: <<step, status, details>>,
\* details None or a dict; "skipped" is outside the documented statuses.
StepInputs ==
    { <<"download", "success", <<>> >>,
      <<"normalize", "skipped", <<"error">> >> }

\* Audio files handed to set_audio_checksum: one on disk, one not.
AudioFiles == {"original.mp3", "missing.mp3"}

\* Files handed to compute_file_checksum: empty, shorter than a chunk, one
\* and two whole chunks, longer; and one that is not there.
ChecksumFiles ==
    {"empty.bin", "clip.wav", "one_chunk.bin", "two_chunks.bin",
     "original.mp3", "missing.mp3"}

AudioExists(a) == a # "missing.mp3"

\* The size argument of f.read(8192).
ChunkSize == 8192

\* The number of bytes in a file.
AudioSize(a) ==
    CASE a = "empty.bin" -> 0
      [] a = "clip.wav" -> 100
      [] a = "one_chunk.bin" -> ChunkSize
      [] a = "two_chunks.bin" -> 2 * ChunkSize
      [] OTHER -> 20000

\* Bytes lo..hi of file a, as data: a sequence of at most one run.
Bytes(a, lo, hi) ==
    IF hi < lo THEN <<>> ELSE <<[file |-> a, lo |-> lo, hi |-> hi]>>

\* Everything in the file.
AudioContent(a) == Bytes(a, 1, AudioSize(a))

VARIABLES
    now,      \* wall clock
    file,     \* metadata.json: [exists, content]
    mgr,      \* EpisodeManager objects: [live, metadata]
    pc,       \* operation in progress: [at, m, kind, pre, t]
    lastOp,   \* the operation that ended last: [kind, m, outcome, pre, t];
              \* pre is the file as the operation found it, kept for an
              \* open, a create and an operation that ended in an error or
              \* crash
    base,     \* history each manager held when it was constructed
    calls,    \* add_processing_step calls made on each manager, in order
    faults,   \* faults injected so far
    idCalls,  \* create_episode_id calls made so far: [source, show,
              \* pub_date, result], in call order
    dirs,     \* the directories that exist on the filesystem
    resolver, \* the EpisodeManager paths are asked of: [live, episode_id,
              \* episode_dir, metadata_path]
    pathCalls, \* get_*_path calls made so far: [category, filename,
              \* result, before, after], in call order
    sumCalls, \* compute_file_checksum calls made so far: [file, bad,
              \* result], in call order
    drv       \* the run of a pipeline driver (scripts/try_*.py main):
              \* [prog, at, runs, result, log, attempts, bound]

\* The state of the episode store.
storeVars == <<now, file, mgr, pc, lastOp, base, calls, faults>>

\* The state the stand-alone functions are exercised on.
toolVars == <<idCalls, dirs, resolver, pathCalls, sumCalls>>

\* The state of the path resolver.
pathVars == <<dirs, resolver, pathCalls>>

vars == <<storeVars, toolVars, drv>>

(* ------------------------- small sequence helpers ---------------------- *)

Last(s) == s[Len(s)]

Prefix(s, k) == SubSeq(s, 1, k)

IsPrefix(s, t) == Len(s) <= Len(t) /\ Prefix(t, Len(s)) = s

\* Clock readings a read of utcnow() may return after a reading of t.
Readings(t) == {u \in t..MaxTime : u <= t + 1}

(* ----------------------------- data model ------------------------------ *)

\* ProcessingStep(step=..., status=..., details=...): timestamp defaults to
\* utcnow(); status is a plain str field, no validator.
ProcessingStep(step, status, details, ts) ==
    [step |-> step, timestamp |-> ts, status |-> status, details |-> details]

\* EpisodeMetadata(...) as the drivers build it: history, checksum and both
\* timestamps from their defaults; created_at is evaluated before updated_at.
DefaultMetadataSwapped(title, t1, t2) ==
    [episode_id |-> EPISODE_ID, source |-> "raidio_na_gaeltachta",
     show |-> "nuacht", title |-> title, pub_date |-> <<>>,
     duration_seconds |-> <<>>, original_url |-> "http://rte/a.mp3",
     audio_checksum |-> <<>>, processing_history |-> <<>>,
     created_at |-> t2, updated_at |-> t1]

DefaultMetadata(title, t1, t2) ==
    [episode_id |-> EPISODE_ID, source |-> "raidio_na_gaeltachta",
     show |-> "nuacht", title |-> title, pub_date |-> <<>>,
     duration_seconds |-> <<>>, original_url |-> "http://rte/a.mp3",
     audio_checksum |-> <<>>, processing_history |-> <<>>,
     created_at |-> t1, updated_at |-> t2]

\* A variant that replaces the entry of a repeated stage instead of appending.
MetaAddOverwriting(md, step, status, details, ts, u) ==
    LET h == md.processing_history
        e == ProcessingStep(step, status, details, ts)
        hit == {i \in 1..Len(h) : h[i].step = step}
    IN  [md EXCEPT !.processing_history =
                       IF hit = {} THEN Append(h, e)
                       ELSE [i \in 1..Len(h) |-> IF i \in hit THEN e ELSE h[i]],
                   !.updated_at = u]

\* A variant that starts the list again with the new entry.
MetaAddReplacing(md, step, status, details, ts, u) ==
    [md EXCEPT !.processing_history =
                   <<ProcessingStep(step, status, details, ts)>>,
               !.updated_at = u]

\* A variant that puts the new entry at the head of the list.
MetaAddPrepending(md, step, status, details, ts, u) ==
    [md EXCEPT !.processing_history =
                   <<ProcessingStep(step, status, details, ts)>> \o @,
               !.updated_at = u]

\* EpisodeMetadata.add_processing_step: append, then updated_at = utcnow().
MetaAddProcessingStep(md, step, status, details, ts, u) ==
    [md EXCEPT !.processing_history =
                   Append(@, ProcessingStep(step, status, details, ts)),
               !.updated_at = u]

\* A save that leaves updated_at alone.
StampNothing(md, t) == md

\* save_metadata, first statement: self.metadata.updated_at = utcnow().
StampUpdated(md, t) == [md EXCEPT !.updated_at = t]

(* --------------------------- checksum (sha256) ------------------------- *)

\* Data is a sequence of runs of bytes; two runs that follow each other in
\* a file are the same data as the one run that spans both.
Concat(data, more) ==
    IF data # <<>> /\ more # <<>>
           /\ Last(data).file = more[1].file
           /\ Last(data).hi + 1 = more[1].lo
    THEN Prefix(data, Len(data) - 1)
             \o <<[file |-> more[1].file, lo |-> Last(data).lo,
                   hi |-> more[1].hi]>>
             \o Tail(more)
    ELSE data \o more

\* A hash object that forgets what it was fed before.
Sha256Restart(absorbed, chunk) == chunk

\* sha256.update(chunk): the hash object has absorbed the data so far
\* followed by chunk.
Sha256Update(absorbed, chunk) == Concat(absorbed, chunk)

\* hashlib.sha256 over data, as a hex digest.
Sha256Hex(content) == <<"hex", content>>

Min(x, y) == IF x <= y THEN x ELSE y

\* compute_file_checksum's loop, for chunk in iter(lambda: f.read(8192),
\* b""): read number `bad` raises OSError (0: none does); an empty read
\* ends the loop and the digest is taken.  [exc, value, reads].
RECURSIVE ReadLoop(_, _, _, _, _)
ReadLoop(a, pos, absorbed, reads, bad) ==
    LET n == Min(ChunkSize, AudioSize(a) - pos)
        chunk == Bytes(a, pos + 1, pos + n)
    IN  IF Len(reads) + 1 = bad
        THEN [exc |-> "OSError", value |-> <<>>, reads |-> reads]
        ELSE IF chunk = <<>>
        THEN [exc |-> "none", value |-> <<Sha256Hex(absorbed)>>,
              reads |-> Append(reads, chunk)]
        ELSE ReadLoop(a, pos + n, Sha256Update(absorbed, chunk),
                      Append(reads, chunk), bad)

\* A version whose except branch returns the digest of what was read.
ComputeFileChecksumSwallowing(a, bad) ==
    IF ~AudioExists(a)
    THEN [exc |-> "none", value |-> <<Sha256Hex(<<>>)>>, reads |-> <<>>]
    ELSE LET r == ReadLoop(a, 0, <<>>, <<>>, bad)
         IN  IF r.exc = "none" THEN r
             ELSE [exc |-> "none", value |-> <<Sha256Hex(<<>>)>>,
                   reads |-> r.reads]

\* EpisodeManager.compute_file_checksum: open raises FileNotFoundError for
\* a missing file; every OSError is logged and re-raised.
ComputeFileChecksum(a, bad) ==
    IF ~AudioExists(a)
    THEN [exc |-> "FileNotFoundError", value |-> <<>>, reads |-> <<>>]
    ELSE ReadLoop(a, 0, <<>>, <<>>, bad)

\* What compute_file_checksum gives for each file when no read fails.
FileChecksums == [a \in ChecksumFiles |-> ComputeFileChecksum(a, 0)]

\* A field that holds the digest without its prefix.
ChecksumFieldBare(hex) == hex

\* f"sha256:{checksum}"
ChecksumField(hex) == <<"sha256:", hex>>

(* ------------------------- JSON (de)serialisation ---------------------- *)

Tok(k, v) == [k |-> k, v |-> v]

OpenBrace == Tok("{", <<>>)
CloseBrace == Tok("}", <<>>)

JStr(s) == <<"str", s>>
JNull == <<"null">>
JIso(t) == <<"iso", t>>
JOpt(o) == IF o = <<>> THEN JNull ELSE <<"val", o[1]>>

\* model_dump(mode="json") of one ProcessingStep.
DumpStep(e) ==
    [step |-> JStr(e.step), timestamp |-> JIso(e.timestamp),
     status |-> JStr(e.status), details |-> JOpt(e.details)]

ParseStep(j) ==
    [step |-> j.step[2], timestamp |-> j.timestamp[2],
     status |-> j.status[2],
     details |-> IF j.details = JNull THEN <<>> ELSE <<j.details[2]>>]

\* A dump that writes only the newest ledger entry.
DumpLastOnly(md) ==
    LET h == md.processing_history
    IN << OpenBrace,
          Tok("episode_id", JStr(md.episode_id)),
          Tok("source", JStr(md.source)),
          Tok("show", JStr(md.show)),
          Tok("title", JStr(md.title)),
          Tok("pub_date", JOpt(md.pub_date)),
          Tok("duration_seconds", JOpt(md.duration_seconds)),
          Tok("original_url", JStr(md.original_url)),
          Tok("audio_checksum", JOpt(md.audio_checksum)),
          Tok("processing_history",
              <<"list", IF h = <<>> THEN <<>> ELSE <<DumpStep(Last(h))>> >>),
          Tok("created_at", JIso(md.created_at)),
          Tok("updated_at", JIso(md.updated_at)),
          CloseBrace >>

\* A dump that writes the fields a step changes but not duration_seconds.
DumpNoDuration(md) ==
    << OpenBrace,
       Tok("episode_id", JStr(md.episode_id)),
       Tok("source", JStr(md.source)),
       Tok("show", JStr(md.show)),
       Tok("title", JStr(md.title)),
       Tok("pub_date", JOpt(md.pub_date)),
       Tok("duration_seconds", JNull),
       Tok("original_url", JStr(md.original_url)),
       Tok("audio_checksum", JOpt(md.audio_checksum)),
       Tok("processing_history",
           <<"list", [i \in 1..Len(md.processing_history) |->
                          DumpStep(md.processing_history[i])]>>),
       Tok("created_at", JIso(md.created_at)),
       Tok("updated_at", JIso(md.updated_at)),
       CloseBrace >>

\* json.dump(self.metadata.model_dump(mode="json"), f, indent=2): the whole
\* document, keys in field order, datetimes as ISO strings, None as null.
Dump(md) ==
    << OpenBrace,
       Tok("episode_id", JStr(md.episode_id)),
       Tok("source", JStr(md.source)),
       Tok("show", JStr(md.show)),
       Tok("title", JStr(md.title)),
       Tok("pub_date", JOpt(md.pub_date)),
       Tok("duration_seconds", JOpt(md.duration_seconds)),
       Tok("original_url", JStr(md.original_url)),
       Tok("audio_checksum", JOpt(md.audio_checksum)),
       Tok("processing_history",
           <<"list", [i \in 1..Len(md.processing_history) |->
                          DumpStep(md.processing_history[i])]>>),
       Tok("created_at", JIso(md.created_at)),
       Tok("updated_at", JIso(md.updated_at)),
       CloseBrace >>

\* json.load succeeds: the text is one complete object.
JsonParses(c) ==
    /\ Len(c) >= 2
    /\ c[1] = OpenBrace
    /\ c[Len(c)] = CloseBrace
    /\ \A i \in 2..(Len(c) - 1) : c[i].k \notin {"{", "}"}

Keys(c) == {c[i].k : i \in 2..(Len(c) - 1)}

HasKey(c, k) == \E i \in 2..(Len(c) - 1) : c[i].k = k

Val(c, k) == c[CHOOSE i \in 2..(Len(c) - 1) : c[i].k = k].v

\* Fields of EpisodeMetadata without a default.
RequiredFields == {"episode_id", "source", "show", "title", "original_url"}

\* EpisodeMetadata(**data) validates: every required field is present.
Validates(c) == \A k \in RequiredFields : HasKey(c, k)

OptOf(c, k) ==
    IF HasKey(c, k) /\ Val(c, k) # JNull THEN <<Val(c, k)[2]>> ELSE <<>>

\* EpisodeMetadata(**data): fields from the document, defaults for absent
\* optional ones (t is the clock reading the timestamp defaults would take).
Parse(c, t) ==
    [episode_id |-> Val(c, "episode_id")[2],
     source |-> Val(c, "source")[2],
     show |-> Val(c, "show")[2],
     title |-> Val(c, "title")[2],
     pub_date |-> OptOf(c, "pub_date"),
     duration_seconds |-> OptOf(c, "duration_seconds"),
     original_url |-> Val(c, "original_url")[2],
     audio_checksum |-> OptOf(c, "audio_checksum"),
     processing_history |->
         IF HasKey(c, "processing_history")
         THEN LET l == Val(c, "processing_history")[2]
              IN  [i \in 1..Len(l) |-> ParseStep(l[i])]
         ELSE <<>>,
     created_at |-> IF HasKey(c, "created_at")
                    THEN Val(c, "created_at")[2] ELSE t,
     updated_at |-> IF HasKey(c, "updated_at")
                    THEN Val(c, "updated_at")[2] ELSE t]

\* A loader that answers a broken file with "no metadata" instead of raising.
LoadMetadataSwallowing(f, t) ==
    IF f.exists /\ JsonParses(f.content) /\ Validates(f.content)
    THEN [exc |-> "none", metadata |-> <<Parse(f.content, t)>>]
    ELSE [exc |-> "none", metadata |-> <<>>]

\* EpisodeManager._load_metadata: None when the file is absent; the parse and
\* validation errors are logged and re-raised.
LoadMetadata(f, t) ==
    IF ~f.exists THEN [exc |-> "none", metadata |-> <<>>]
    ELSE IF ~JsonParses(f.content)
         THEN [exc |-> "JSONDecodeError", metadata |-> <<>>]
    ELSE IF ~Validates(f.content)
         THEN [exc |-> "ValidationError", metadata |-> <<>>]
    ELSE [exc |-> "none", metadata |-> <<Parse(f.content, t)>>]

(* ------------------------------- paths --------------------------------- *)
(* A path is [abs, parts]: whether it starts at the filesystem root, and    *)
(* its components as pathlib keeps them ("..", when present, is kept).      *)

RelPath(parts) == [abs |-> FALSE, parts |-> parts]

AbsPath(parts) == [abs |-> TRUE, parts |-> parts]

\* pathlib's p / q: an absolute q replaces p, a relative q is appended.
Join(p, q) == IF q.abs THEN q ELSE [abs |-> p.abs, parts |-> p.parts \o q.parts]

\* TeangaConfig.data_dir and cache_dir, from their defaults.
DataRoot == RelPath(<<"data">>)

CacheDir == RelPath(<<"data", ".cache">>)

\* The directory the process runs in.
Cwd == AbsPath(<<"srv", "teanga">>)

\* A mkdir that lacks exist_ok.
MkdirStrict(ds, p) ==
    IF p \in ds
    THEN [exc |-> "FileExistsError", dirs |-> ds]
    ELSE [exc |-> "none",
          dirs |-> ds \cup {[abs |-> p.abs, parts |-> Prefix(p.parts, k)] :
                              k \in 1..Len(p.parts)}]

\* p.mkdir(parents=True, exist_ok=True): p and every missing ancestor.
Mkdir(ds, p) ==
    [exc |-> "none",
     dirs |-> ds \cup {[abs |-> p.abs, parts |-> Prefix(p.parts, k)] :
                         k \in 1..Len(p.parts)}]

\* TeangaConfig.get_episode_dir: [exc, path, dirs].
GetEpisodeDir(ds, episode_id) ==
    LET p == Join(Join(DataRoot, RelPath(<<"episodes">>)), RelPath(<<episode_id>>))
        r == Mkdir(ds, p)
    IN  [exc |-> r.exc, path |-> p, dirs |-> r.dirs]

\* TeangaConfig.get_media_dir .. get_analysis_dir: the episode directory,
\* then the one subdirectory: [exc, path, dirs].
GetCategoryDir(ds, episode_id, category) ==
    LET e == GetEpisodeDir(ds, episode_id)
        p == Join(e.path, RelPath(<<category>>))
        r == Mkdir(e.dirs, p)
    IN  IF e.exc # "none" THEN e
        ELSE [exc |-> r.exc, path |-> p, dirs |-> r.dirs]

NoResolver ==
    [live |-> FALSE, episode_id |-> EPISODE_ID, episode_dir |-> DataRoot,
     metadata_path |-> DataRoot]

\* No path has been asked for and no directory made.
PathsIdle ==
    /\ dirs = {}
    /\ resolver = NoResolver
    /\ pathCalls = <<>>

\* No driver is running.  runs counts the runs started so far; of a run,
\* at is the statement reached, result how main ended, log the errors it
\* reported through logger.error in order, attempts the stages it entered
\* with how the stage's own work ended, bound the local names assigned.
NoRun ==
    [prog |-> "none", at |-> "none", runs |-> 0, result |-> <<>>,
     log |-> <<>>, attempts |-> <<>>, bound |-> {}]

(* ------------------------------ state ---------------------------------- *)

NoFile == [exists |-> FALSE, content |-> <<>>]

\* A metadata.json cut off in the middle of the object.
TruncatedFile ==
    [exists |-> TRUE,
     content |-> <<OpenBrace, Tok("episode_id", JStr(EPISODE_ID))>>]

\* A well-formed object that lacks title and original_url.
IncompleteFile ==
    [exists |-> TRUE,
     content |-> <<OpenBrace, Tok("episode_id", JStr(EPISODE_ID)),
                   Tok("source", JStr("raidio_na_gaeltachta")),
                   Tok("show", JStr("nuacht")), CloseBrace>>]

\* What may lie in the episode directory before the program first runs.
InitialFiles == {NoFile, TruncatedFile, IncompleteFile}

NoManager == [live |-> FALSE, metadata |-> <<>>]

Idle ==
    [at |-> "idle", m |-> "m1", kind |-> "none", pre |-> NoFile, t |-> 0,
     ret |-> <<>>]

\* The record of an operation that ended; ret is the value it returned,
\* if it returned one.
Returned(kind, m, outcome, pre, t) ==
    [kind |-> kind, m |-> m, outcome |-> outcome, pre |-> pre, t |-> t,
     ret |-> <<>>]

\* No operation has ended since the current one began.
Running == Returned("none", "m1", "none", NoFile, 0)

Init ==
    /\ now = 0
    /\ file \in InitialFiles
    /\ mgr = [m \in Managers |-> NoManager]
    /\ pc = Idle
    /\ lastOp = Running
    /\ base = [m \in Managers |-> <<>>]
    /\ calls = [m \in Managers |-> <<>>]
    /\ faults = 0
    /\ idCalls = <<>>
    /\ PathsIdle
    /\ sumCalls = <<>>
    /\ drv = NoRun

HasMetadata(m) == mgr[m].live /\ mgr[m].metadata # <<>>

Md(m) == mgr[m].metadata[1]

(* ------------------- save_metadata's write, step by step --------------- *)

\* Where a write of document d can stop: the output is buffered, so the disk
\* holds nothing yet or a leading part of the text.
Cuts(d) == {0, Len(d) \div 2}

\* An operation ends with exception exc before it changed anything.
Raise(kind, m, exc) ==
    /\ lastOp' = Returned(kind, m, exc, file, now)
    /\ UNCHANGED <<now, file, mgr, pc, faults>>

\* save_metadata up to and including open(self.metadata_path, "w"), for the
\* document md: updated_at is stamped first; then the file is created or cut
\* to length 0, or open raises OSError, which is logged and re-raised with
\* nothing written.
\* ret is what the operation will return once the write is done.
BeginFlushReturning(kind, m, md, t, ret) ==
    /\ mgr' = [mgr EXCEPT ![m] =
           [live |-> TRUE, metadata |-> <<StampUpdated(md, t)>>]]
    /\ now' = t
    /\ \/ /\ file' = [exists |-> TRUE, content |-> <<>>]
          /\ pc' = [at |-> "dump", m |-> m, kind |-> kind, pre |-> file,
                    t |-> t, ret |-> ret]
          /\ lastOp' = Running
          /\ UNCHANGED faults
       \/ /\ faults < MaxFaults
          /\ faults' = faults + 1
          /\ lastOp' = Returned(kind, m, "OSError", file, t)
          /\ UNCHANGED <<file, pc>>

\* The same for an operation that returns None.
BeginFlush(kind, m, md, t) == BeginFlushReturning(kind, m, md, t, <<>>)

(* ---------------------------- construction ----------------------------- *)

\* A create that loads an existing record first and keeps its ledger,
\* checksum and creation time.
CreateMerging(m) ==
    /\ pc.at = "idle"
    /\ ~mgr[m].live
    /\ LET old == LoadMetadata(file, now)
           Keep(md) ==
               IF old.exc = "none" /\ old.metadata # <<>>
               THEN [md EXCEPT
                       !.processing_history = old.metadata[1].processing_history,
                       !.audio_checksum = old.metadata[1].audio_checksum,
                       !.created_at = old.metadata[1].created_at]
               ELSE md
       IN  \E t1 \in Readings(now) : \E t2 \in Readings(t1) :
             \E t3 \in Readings(t2) :
               BeginFlush("create", m,
                          Keep(DefaultMetadata("Nuacht a 6", t1, t2)), t3)
    /\ base' = [base EXCEPT ![m] = <<>>]
    /\ calls' = [calls EXCEPT ![m] = <<>>]
    /\ UNCHANGED toolVars

\* create, as the audio pipeline driver performs it:
\*   metadata = EpisodeMetadata(...); manager = EpisodeManager(id, metadata)
\*   manager.save_metadata()
\* `if metadata:` takes the object as given, nothing is read; save_metadata
\* then stamps updated_at and enters its write.
Create(m) ==
    /\ pc.at = "idle"
    /\ ~mgr[m].live
    /\ \E t1 \in Readings(now) : \E t2 \in Readings(t1) : \E t3 \in Readings(t2) :
         BeginFlush("create", m, DefaultMetadata("Nuacht a 6", t1, t2), t3)
    /\ base' = [base EXCEPT ![m] = <<>>]
    /\ calls' = [calls EXCEPT ![m] = <<>>]
    /\ UNCHANGED toolVars

\* manager = EpisodeManager(id): metadata comes from _load_metadata; an
\* exception leaves the caller without a manager.
Open(m) ==
    /\ pc.at = "idle"
    /\ ~mgr[m].live
    /\ LET r == LoadMetadata(file, now)
         IN  /\ mgr' = [mgr EXCEPT ![m] =
                    IF r.exc = "none"
                    THEN [live |-> TRUE, metadata |-> r.metadata]
                    ELSE NoManager]
             /\ base' = [base EXCEPT ![m] =
                    IF r.metadata = <<>> THEN <<>>
                    ELSE r.metadata[1].processing_history]
             /\ lastOp' = Returned("open", m,
                                   IF r.exc = "none" THEN "ok" ELSE r.exc,
                                   file, now)
    /\ calls' = [calls EXCEPT ![m] = <<>>]
    /\ UNCHANGED <<now, file, pc, faults>>
    /\ UNCHANGED toolVars

(* ------------------------ operations on a manager ---------------------- *)

\* A save_metadata that opens the file before it touches self.metadata.
SaveMetadataOpening(m) ==
    /\ pc.at = "idle"
    /\ mgr[m].live
    /\ IF mgr[m].metadata = <<>>
       THEN /\ file' = [exists |-> TRUE, content |-> <<>>]
            /\ lastOp' = Returned("save", m, "AttributeError", file, now)
            /\ UNCHANGED <<now, mgr, pc, faults>>
       ELSE \E t \in Readings(now) : BeginFlush("save", m, Md(m), t)
    /\ UNCHANGED <<base, calls>>
    /\ UNCHANGED toolVars

\* manager.save_metadata()
SaveMetadata(m) ==
    /\ pc.at = "idle"
    /\ mgr[m].live
    /\ IF mgr[m].metadata = <<>>
       THEN Raise("save", m, "AttributeError")
       ELSE \E t \in Readings(now) : BeginFlush("save", m, Md(m), t)
    /\ UNCHANGED <<base, calls>>
    /\ UNCHANGED toolVars

\* manager.add_processing_step(step, status, details): the in-memory append
\* (the entry's timestamp and updated_at are read from the clock), then
\* save_metadata, which reads the clock again.
AddProcessingStep(m, step, status, details) ==
    /\ pc.at = "idle"
    /\ mgr[m].live
    /\ IF mgr[m].metadata = <<>>
       THEN /\ Raise("recordStep", m, "AttributeError")
            /\ UNCHANGED calls
       ELSE \E ts \in Readings(now) : \E u \in Readings(ts) :
              /\ BeginFlush("recordStep", m,
                     MetaAddProcessingStep(Md(m), step, status, details,
                                           ts, ts), u)
              /\ calls' = [calls EXCEPT ![m] =
                     Append(@, ProcessingStep(step, status, details, ts))]
    /\ UNCHANGED base
    /\ UNCHANGED toolVars

\* A set_audio_checksum that resets the field before it reads the file.
SetAudioChecksumClearing(m, a) ==
    /\ pc.at = "idle"
    /\ mgr[m].live
    /\ LET r == FileChecksums[a]
       IN  IF mgr[m].metadata = <<>>
           THEN Raise("recordChecksum", m,
                      IF r.exc # "none" THEN r.exc ELSE "AttributeError")
           ELSE IF r.exc # "none"
           THEN /\ mgr' = [mgr EXCEPT ![m].metadata =
                               <<[Md(m) EXCEPT !.audio_checksum = <<>>]>>]
                /\ lastOp' = Returned("recordChecksum", m, r.exc, file, now)
                /\ UNCHANGED <<now, file, pc, faults>>
           ELSE \E t \in Readings(now) :
                  BeginFlushReturning("recordChecksum", m,
                      [Md(m) EXCEPT !.audio_checksum =
                           <<ChecksumField(r.value[1])>>], t, r.value)
    /\ UNCHANGED <<base, calls>>
    /\ UNCHANGED toolVars

\* manager.set_audio_checksum(path): an exception of compute_file_checksum
\* leaves the method; otherwise the field is set, the metadata saved and
\* the digest returned.
SetAudioChecksum(m, a) ==
    /\ pc.at = "idle"
    /\ mgr[m].live
    /\ LET r == FileChecksums[a]
       IN  IF r.exc # "none"
           THEN Raise("recordChecksum", m, r.exc)
           ELSE IF mgr[m].metadata = <<>>
           THEN Raise("recordChecksum", m, "AttributeError")
           ELSE \E t \in Readings(now) :
                  BeginFlushReturning("recordChecksum", m,
                      [Md(m) EXCEPT !.audio_checksum =
                           <<ChecksumField(r.value[1])>>], t, r.value)
    /\ UNCHANGED <<base, calls>>
    /\ UNCHANGED toolVars

\* compute_file_checksum: f.read fails part-way, the OSError is re-raised.
SetAudioChecksumReadFails(m, a) ==
    /\ pc.at = "idle"
    /\ mgr[m].live
    /\ faults < MaxFaults
    /\ AudioExists(a)
    /\ faults' = faults + 1
    /\ lastOp' = Returned("recordChecksum", m, "OSError", file, now)
    /\ UNCHANGED <<now, file, mgr, pc, base, calls>>
    /\ UNCHANGED toolVars

\* manager.metadata.duration_seconds = int(...): a field assigned by the
\* caller between two flushes; the driver does it for the audio whose
\* checksum it has stored.
SetDuration(m, d) ==
    /\ pc.at = "idle"
    /\ HasMetadata(m)
    /\ Md(m).duration_seconds # <<d>>
    /\ Md(m).audio_checksum # <<>>
    /\ mgr' = [mgr EXCEPT ![m].metadata = <<[Md(m) EXCEPT !.duration_seconds = <<d>>]>>]
    /\ lastOp' = Returned("assign", m, "ok", NoFile, now)
    /\ UNCHANGED <<now, file, pc, base, calls, faults>>
    /\ UNCHANGED toolVars

\* json.dump writes the document and the with-block closes the file.
SaveDump ==
    /\ pc.at = "dump"
    /\ file' = [exists |-> TRUE, content |-> Dump(Md(pc.m))]
    /\ lastOp' = [Returned(pc.kind, pc.m, "ok",
                            IF pc.kind = "create" THEN pc.pre ELSE NoFile,
                            pc.t)
                      EXCEPT !.ret = pc.ret]
    /\ pc' = Idle
    /\ UNCHANGED <<now, mgr, base, calls, faults>>
    /\ UNCHANGED toolVars

\* A write raises OSError after k tokens reached the disk.
SaveDumpFails ==
    /\ pc.at = "dump"
    /\ faults < MaxFaults
    /\ faults' = faults + 1
    /\ LET d == Dump(Md(pc.m))
       IN  \E k \in Cuts(d) :
             file' = [exists |-> TRUE, content |-> Prefix(d, k)]
    /\ lastOp' = Returned(pc.kind, pc.m, "OSError", pc.pre, pc.t)
    /\ pc' = Idle
    /\ UNCHANGED <<now, mgr, base, calls>>
    /\ UNCHANGED toolVars

\* The process ends between two operations: every manager object is gone.
Exit ==
    /\ pc.at = "idle"
    /\ \E m \in Managers : mgr[m].live
    /\ lastOp' = Returned("exit", pc.m, "ok", NoFile, now)
    /\ mgr' = [m \in Managers |-> NoManager]
    /\ base' = [m \in Managers |-> <<>>]
    /\ calls' = [m \in Managers |-> <<>>]
    /\ UNCHANGED <<now, file, pc, faults>>
    /\ UNCHANGED toolVars

\* The process dies inside save_metadata, after the file was opened for
\* writing: the disk keeps what had reached it.
Crash ==
    /\ pc.at # "idle"
    /\ faults < MaxFaults
    /\ faults' = faults + 1
    /\ LET d == Dump(Md(pc.m))
       IN  \E k \in Cuts(d) \cup {Len(d)} :
             file' = [exists |-> TRUE, content |-> Prefix(d, k)]
    /\ lastOp' = Returned("crash", pc.m, pc.kind, pc.pre, now)
    /\ mgr' = [m \in Managers |-> NoManager]
    /\ base' = [m \in Managers |-> <<>>]
    /\ calls' = [m \in Managers |-> <<>>]
    /\ pc' = Idle
    /\ UNCHANGED now
    /\ UNCHANGED toolVars

\* The ledger of m is shorter than the longest the run is driven to.
MayRecord(m) == HasMetadata(m) => Len(Md(m).processing_history) < MaxHist

\* The store driven by one writer, operation by operation; no pipeline
\* driver runs.
Next ==
    \/ \E m \in Writers : Create(m) /\ UNCHANGED drv
    \/ \E m \in Writers : Open(m) /\ UNCHANGED drv
    \/ \E m \in Writers : SaveMetadata(m) /\ UNCHANGED drv
    \/ \E m \in Writers : \E a \in StepInputs :
         MayRecord(m) /\ AddProcessingStep(m, a[1], a[2], a[3])
                      /\ UNCHANGED drv
    \/ \E m \in Writers : \E a \in AudioFiles :
         SetAudioChecksum(m, a) /\ UNCHANGED drv
    \/ \E m \in Writers : \E a \in AudioFiles :
         SetAudioChecksumReadFails(m, a) /\ UNCHANGED drv
    \/ \E m \in Writers : SetDuration(m, 1) /\ UNCHANGED drv
    \/ SaveDump /\ UNCHANGED drv
    \/ SaveDumpFails /\ UNCHANGED drv
    \/ Exit /\ UNCHANGED drv
    \/ Crash /\ UNCHANGED drv

Spec == Init /\ [][Next]_vars

TypeOK ==
    /\ now \in 0..MaxTime
    /\ file.exists \in BOOLEAN
    /\ pc.at \in {"idle", "dump"}
    /\ \A m \in Managers : mgr[m].live \in BOOLEAN /\ Len(mgr[m].metadata) <= 1

(* ======================= create_episode_id ============================= *)
(* Strings are sequences of characters, so that concatenation, lower() and *)
(* replace() act on them as they do in the code.                           *)

\* Most create_episode_id calls in one run.
MaxCalls == 2

\* Source identifiers callers pass ("r" abbreviates rnag): a plain one and
\* one that contains an underscore, as raidio_na_gaeltachta does.
Sources == { <<"r">>, <<"r", "_", "n">> }

\* Show names: empty, mixed case, with a space, a hyphen and an underscore.
Shows ==
    { <<>>, <<"a">>, <<"N">>, <<"n">>,
      <<"n", " ", "a">>, <<"n", "-", "a">>, <<"n", "_", "a">> }

\* Publication datetimes: two minutes of one hour, two seconds in each.
PubDates ==
    { [year |-> 2025, month |-> 10, day |-> 18, hour |-> 18,
       minute |-> mi, second |-> se] : mi \in {0, 1}, se \in {0, 59} }

DigitChars == <<"0", "1", "2", "3", "4", "5", "6", "7", "8", "9">>

Digit(n) == DigitChars[n + 1]

\* A number printed zero-padded to two and to four places (%m, %d, %H, %M; %Y).
TwoDigits(n) == <<Digit((n \div 10) % 10), Digit(n % 10)>>

FourDigits(n) == TwoDigits(n \div 100) \o TwoDigits(n % 100)

\* pub_date.strftime("%Y%m%d")
DateStr(d) == FourDigits(d.year) \o TwoDigits(d.month) \o TwoDigits(d.day)

\* A time format that keeps the seconds.
TimeStrWithSeconds(d) ==
    TwoDigits(d.hour) \o TwoDigits(d.minute) \o TwoDigits(d.second)

\* pub_date.strftime("%H%M")
TimeStr(d) == TwoDigits(d.hour) \o TwoDigits(d.minute)

\* str.lower(), on the letters of the alphabet used here.
LowerChar(c) == CASE c = "N" -> "n" [] c = "A" -> "a" [] OTHER -> c

Lower(str) == [i \in 1..Len(str) |-> LowerChar(str[i])]

\* str.replace(old, new) for single characters.
Replace(str, old, new) ==
    [i \in 1..Len(str) |-> IF str[i] = old THEN new ELSE str[i]]

\* show.lower().replace(" ", "_").replace("-", "_")
ShowClean(show) == Replace(Replace(Lower(show), " ", "_"), "-", "_")

\* create_episode_id: f"{source}_{show_clean}_{date_str}_{time_str}"; there
\* is no raise in the function.
CreateEpisodeId(source, show, pub_date) ==
    [exc |-> "none",
     value |-> source \o <<"_">> \o ShowClean(show) \o <<"_">>
                 \o DateStr(pub_date) \o <<"_">> \o TimeStr(pub_date)]

\* One call of create_episode_id.
MakeIdentity(source, show, pub_date) ==
    /\ Len(idCalls) < MaxCalls
    /\ idCalls' = Append(idCalls,
           [source |-> source, show |-> show, pub_date |-> pub_date,
            result |-> CreateEpisodeId(source, show, pub_date)])
    /\ UNCHANGED <<storeVars, pathVars, sumCalls>>

\* The store untouched: no metadata.json, no manager.
StoreIdle ==
    /\ now = 0
    /\ file = NoFile
    /\ mgr = [m \in Managers |-> NoManager]
    /\ pc = Idle
    /\ lastOp = Running
    /\ base = [m \in Managers |-> <<>>]
    /\ calls = [m \in Managers |-> <<>>]
    /\ faults = 0

InitIdentity ==
    /\ StoreIdle
    /\ drv = NoRun
    /\ idCalls = <<>>
    /\ PathsIdle
    /\ sumCalls = <<>>

NextIdentity ==
    \E source \in Sources : \E show \in Shows : \E pub_date \in PubDates :
        MakeIdentity(source, show, pub_date) /\ UNCHANGED drv

SpecIdentity == InitIdentity /\ [][NextIdentity]_vars

(* ===================== get_media_path .. get_analysis_path ============= *)

\* Most get_*_path calls in one run.
MaxResolves == 2

\* get_media_path, get_transcript_path, get_gloss_path, get_exercise_path
\* and get_analysis_path, by the subdirectory each one asks the config for.
Categories == {"media", "transcripts", "glosses", "exercises", "analysis"}

EpisodeIds == {EPISODE_ID, "rnag_nuacht_20251019_1800"}

\* Filenames callers pass: a plain name, the empty string (used to get the
\* directory), names that climb with "..", and an absolute path.
Filenames ==
    { RelPath(<<"normalized.wav">>),
      RelPath(<<>>),
      RelPath(<<"..", "..", "..", "..", "x">>),
      AbsPath(<<"etc", "passwd">>) }

\* The tree an earlier run, which fetched media of EPISODE_ID, left behind.
EarlierTree ==
    Mkdir(GetCategoryDir({}, EPISODE_ID, "media").dirs, CacheDir).dirs

InitialTrees == { {}, EarlierTree }

\* EpisodeManager(episode_id, ...), as far as paths go: get_config() builds
\* the TeangaConfig (its validator makes data_dir and cache_dir), then
\* episode_dir = config.get_episode_dir(episode_id) and metadata_path.
NewManager(episode_id) ==
    /\ ~resolver.live
    /\ LET ds == Mkdir(Mkdir(dirs, DataRoot).dirs, CacheDir).dirs
           e == GetEpisodeDir(ds, episode_id)
       IN  /\ dirs' = e.dirs
           /\ resolver' =
                  IF e.exc = "none"
                  THEN [live |-> TRUE, episode_id |-> episode_id,
                        episode_dir |-> e.path,
                        metadata_path |->
                            Join(e.path, RelPath(<<"metadata.json">>))]
                  ELSE resolver
    /\ UNCHANGED <<storeVars, idCalls, pathCalls, sumCalls>>

\* A get_<category>_path that enters the directory it made in the ledger.
GetPathRecording(category, filename) ==
    /\ resolver.live
    /\ Len(pathCalls) < MaxResolves
    /\ LET r == GetCategoryDir(dirs, resolver.episode_id, category)
       IN  /\ dirs' = r.dirs
           /\ pathCalls' = Append(pathCalls,
                  [category |-> category, filename |-> filename,
                   result |-> [exc |-> r.exc,
                               path |-> IF r.exc = "none"
                                        THEN <<Join(r.path, filename)>>
                                        ELSE <<>>],
                   before |-> dirs, after |-> r.dirs])
    /\ mgr' = [m \in Managers |->
                 IF HasMetadata(m)
                 THEN [mgr[m] EXCEPT !.metadata =
                          <<MetaAddProcessingStep(Md(m), "mkdir", "success",
                                                  <<>>, now, now)>>]
                 ELSE mgr[m]]
    /\ UNCHANGED <<now, file, pc, lastOp, base, calls, faults>>
    /\ UNCHANGED <<idCalls, resolver, sumCalls>>

\* manager.get_<category>_path(filename):
\*   return self.config.get_<category>_dir(self.episode_id) / filename
GetPath(category, filename) ==
    /\ resolver.live
    /\ Len(pathCalls) < MaxResolves
    /\ LET r == GetCategoryDir(dirs, resolver.episode_id, category)
       IN  /\ dirs' = r.dirs
           /\ pathCalls' = Append(pathCalls,
                  [category |-> category, filename |-> filename,
                   result |-> [exc |-> r.exc,
                               path |-> IF r.exc = "none"
                                        THEN <<Join(r.path, filename)>>
                                        ELSE <<>>],
                   before |-> dirs, after |-> r.dirs])
    /\ UNCHANGED <<storeVars, idCalls, resolver, sumCalls>>

\* The same call when mkdir is refused (permissions, full disk): the
\* OSError leaves the method, nothing is made and nothing returned.
GetPathMkdirFails(category, filename) ==
    /\ resolver.live
    /\ Len(pathCalls) < MaxResolves
    /\ pathCalls' = Append(pathCalls,
           [category |-> category, filename |-> filename,
            result |-> [exc |-> "OSError", path |-> <<>>],
            before |-> dirs, after |-> dirs])
    /\ UNCHANGED <<storeVars, idCalls, dirs, resolver, sumCalls>>

InitPaths ==
    /\ StoreIdle
    /\ drv = NoRun
    /\ idCalls = <<>>
    /\ dirs \in InitialTrees
    /\ resolver = NoResolver
    /\ pathCalls = <<>>
    /\ sumCalls = <<>>

NextPaths ==
    \/ \E id \in EpisodeIds : NewManager(id) /\ UNCHANGED drv
    \/ \E c \in Categories : \E f \in Filenames :
         GetPath(c, f) /\ UNCHANGED drv
    \/ \E c \in Categories : \E f \in Filenames :
         GetPathMkdirFails(c, f) /\ UNCHANGED drv

SpecPaths == InitPaths /\ [][NextPaths]_vars

(* ======================== compute_file_checksum ======================== *)

\* Most compute_file_checksum calls in one run.
MaxSums == 2

\* The reads a call can see fail: none, the first, the second.
BadReads == {0, 1, 2}

\* One call of EpisodeManager.compute_file_checksum(path).
Checksum(a, bad) ==
    /\ Len(sumCalls) < MaxSums
    /\ sumCalls' = Append(sumCalls,
           [file |-> a, bad |-> bad, result |-> ComputeFileChecksum(a, bad)])
    /\ UNCHANGED <<storeVars, idCalls, pathVars>>

InitChecksum ==
    /\ StoreIdle
    /\ drv = NoRun
    /\ idCalls = <<>>
    /\ PathsIdle
    /\ sumCalls = <<>>

NextChecksum ==
    \E a \in ChecksumFiles : \E bad \in BadReads :
        Checksum(a, bad) /\ UNCHANGED drv

SpecChecksum == InitChecksum /\ [][NextChecksum]_vars

(* ============================ two writers ============================== *)
(* Two EpisodeManager objects opened on the one identity, in one process   *)
(* or in two, each recording steps; a call runs from its start to the end  *)
(* of its write before the next begins.  No write fails in these runs: the *)
(* interleaving of the calls is all that varies.                           *)

\* metadata.json as a create at time 0 leaves it.
CreatedFile ==
    [exists |-> TRUE,
     content |-> Dump(StampUpdated(DefaultMetadata("Nuacht a 6", 0, 0), 0))]

InitMulti ==
    /\ now = 0
    /\ file = CreatedFile
    /\ mgr = [m \in Managers |-> NoManager]
    /\ pc = Idle
    /\ lastOp = Running
    /\ base = [m \in Managers |-> <<>>]
    /\ calls = [m \in Managers |-> <<>>]
    /\ faults = MaxFaults
    /\ idCalls = <<>>
    /\ PathsIdle
    /\ sumCalls = <<>>
    /\ drv = NoRun

NextMulti ==
    \/ \E m \in Managers : Open(m) /\ UNCHANGED drv
    \/ \E m \in Managers : \E a \in StepInputs :
         MayRecord(m) /\ AddProcessingStep(m, a[1], a[2], a[3])
                      /\ UNCHANGED drv
    \/ SaveDump /\ UNCHANGED drv

SpecMulti == InitMulti /\ [][NextMulti]_vars

(* ======================== an unknown episode =========================== *)
(* An identity nothing was stored for: metadata.json is absent at the      *)
(* start.  m1 stands for EpisodeManager(id), which finds nothing to load;  *)
(* m2 for EpisodeManager(id, metadata) followed by save_metadata.  m1 is   *)
(* driven through every operation, the lookups of the paths the drivers    *)
(* ask for included.  No write fails in these runs.                        *)

InitAbsent ==
    /\ now = 0
    /\ file = NoFile
    /\ mgr = [m \in Managers |-> NoManager]
    /\ pc = Idle
    /\ lastOp = Running
    /\ base = [m \in Managers |-> <<>>]
    /\ calls = [m \in Managers |-> <<>>]
    /\ faults = MaxFaults
    /\ idCalls = <<>>
    /\ PathsIdle
    /\ sumCalls = <<>>
    /\ drv = NoRun

NextAbsent ==
    \/ NewManager(EPISODE_ID) /\ UNCHANGED drv
    \/ Open("m1") /\ UNCHANGED drv
    \/ Create("m2") /\ UNCHANGED drv
    \/ \E m \in Writers : SaveMetadata(m) /\ UNCHANGED drv
    \/ \E m \in Writers : \E a \in StepInputs :
         MayRecord(m) /\ AddProcessingStep(m, a[1], a[2], a[3])
                      /\ UNCHANGED drv
    \/ \E m \in Writers : \E a \in AudioFiles :
         SetAudioChecksum(m, a) /\ UNCHANGED drv
    \/ \E c \in {"media", "transcripts"} :
         GetPath(c, RelPath(<<"normalized.wav">>)) /\ UNCHANGED drv
    \/ SaveDump /\ UNCHANGED drv

SpecAbsent == InitAbsent /\ [][NextAbsent]_vars

(* ========================= the pipeline drivers ======================== *)
(* scripts/try_audio_pipeline.py and scripts/try_transcription.py: main()  *)
(* statement by statement, on the store and the path resolver above.  A    *)
(* call of the manager is one action of the driver; save_metadata's write  *)
(* (SaveDump, SaveDumpFails) runs between it and the driver's next         *)
(* statement, which sees how the call ended in lastOp.                     *)

\* Most runs of a driver, one after the other.
MaxRuns == 2

\* The driver's local `manager`.
Manager == "m1"

\* The manager call issued last has returned / has raised.
CallReturned == pc.at = "idle" /\ lastOp.outcome = "ok"

CallRaised == pc.at = "idle" /\ lastOp.outcome \notin {"ok", "none"}

\* How main ends, and the exit status sys.exit(main()) gives the process:
\* the returned value, or 1 with a traceback for an exception that leaves
\* main.
Returns(v) == [kind |-> "return", exc |-> "none", status |-> v]

Raises(e) == [kind |-> "raise", exc |-> e, status |-> 1]

\* The driver moves on to statement l.
Goto(l) == drv' = [drv EXCEPT !.at = l]

\* main ends with r.
End(r) == drv' = [drv EXCEPT !.at = "end", !.result = <<r>>]

\* logger.error(...) for stage s, then main ends with r.
EndLogged(s, r) ==
    drv' = [drv EXCEPT !.at = "end", !.result = <<r>>, !.log = Append(@, s)]

\* A stage is entered and its own work (the download, the conversion, the
\* transcription) ends as w; the driver moves on to l.
Attempt(s, w, l) ==
    drv' = [drv EXCEPT !.at = l,
                       !.attempts = Append(@, [stage |-> s, work |-> w])]

\* A process starts main of program p.
Start(p) ==
    /\ drv.prog = "none"
    /\ drv.runs < MaxRuns
    /\ drv' = [NoRun EXCEPT !.prog = p, !.at = "start", !.runs = drv.runs + 1]
    /\ UNCHANGED <<storeVars, toolVars>>

(* ----------------------- try_audio_pipeline.main ----------------------- *)

\* Step 1, lines 39-58: the feed is fetched; no feed URL, no episode or an
\* exception ends the run with 1.
AudioFetch(found) ==
    /\ drv.prog = "audio"
    /\ drv.at = "start"
    /\ IF found THEN Goto("fetched") ELSE EndLogged("rss_fetch", Returns(1))
    /\ UNCHANGED <<storeVars, toolVars>>

\* Line 81, EpisodeManager(episode_id, metadata), as far as paths go.
AudioConstruct ==
    /\ drv.prog = "audio"
    /\ drv.at = "fetched"
    /\ NewManager(EPISODE_ID)
    /\ Goto("constructed")

\* Lines 70-82: the metadata is built, given to the manager and saved.
AudioCreate ==
    /\ drv.prog = "audio"
    /\ drv.at = "constructed"
    /\ Create(Manager)
    /\ Goto("create")

\* Line 83.
AudioRecordFetch ==
    /\ drv.prog = "audio"
    /\ drv.at = "create"
    /\ CallReturned
    /\ AddProcessingStep(Manager, "rss_fetch", "success", <<>>)
    /\ Goto("record_fetch")

\* Lines 87-89: an exception of save_metadata or of the rss_fetch record.
AudioSetupFails ==
    /\ drv.prog = "audio"
    /\ drv.at \in {"create", "record_fetch"}
    /\ CallRaised
    /\ EndLogged("storage", Returns(1))
    /\ UNCHANGED <<storeVars, toolVars>>

\* Lines 95-102: the download returns the audio path or raises.
AudioDownload(ok) ==
    /\ drv.prog = "audio"
    /\ drv.at = "record_fetch"
    /\ CallReturned
    /\ IF ok
       THEN drv' = [drv EXCEPT !.at = "downloaded",
                        !.attempts = Append(@, [stage |-> "download",
                                                work |-> "ok"]),
                        !.bound = @ \cup {"audio_path"}]
       ELSE Attempt("download", "threw", "download_threw")
    /\ UNCHANGED <<storeVars, toolVars>>

\* Line 105: manager.set_audio_checksum(audio_path); the file is there,
\* reading it may fail.
AudioChecksum ==
    /\ drv.prog = "audio"
    /\ drv.at = "downloaded"
    /\ \/ SetAudioChecksum(Manager, "original.mp3")
       \/ SetAudioChecksumReadFails(Manager, "original.mp3")
    /\ Goto("checksum")

\* Lines 108-111.
AudioRecordDownload ==
    /\ drv.prog = "audio"
    /\ drv.at = "checksum"
    /\ CallReturned
    /\ AddProcessingStep(Manager, "download", "success", <<"file_path">>)
    /\ Goto("record_download")

\* Lines 113-115, `except Exception` of the download block: the error is
\* logged, then the failure recorded.  The block is left by an exception of
\* the download, of set_audio_checksum or of the record of success.
AudioDownloadHandler ==
    /\ drv.prog = "audio"
    /\ \/ drv.at = "download_threw"
       \/ drv.at \in {"checksum", "record_download"} /\ CallRaised
    /\ AddProcessingStep(Manager, "download", "failed", <<"error">>)
    /\ drv' = [drv EXCEPT !.at = "record_download_failed",
                          !.log = Append(@, "download")]

\* Line 116, return 1; an exception of line 115 leaves main instead.
AudioDownloadEnd ==
    /\ drv.prog = "audio"
    /\ drv.at = "record_download_failed"
    /\ \/ CallReturned /\ End(Returns(1))
       \/ CallRaised /\ End(Raises(lastOp.outcome))
    /\ UNCHANGED <<storeVars, toolVars>>

\* Lines 122-127: AudioConverter() raises FFmpegNotFoundError when ffmpeg
\* is not installed; normalize_episode_audio returns normalized_path and
\* audio_info or raises.
AudioConvert(outcome) ==
    /\ drv.prog = "audio"
    /\ drv.at = "record_download"
    /\ CallReturned
    /\ CASE outcome = "ok" ->
              drv' = [drv EXCEPT !.at = "converted",
                        !.attempts = Append(@, [stage |-> "normalize",
                                                work |-> "ok"]),
                        !.bound = @ \cup {"normalized_path"}]
         [] outcome = "FFmpegNotFoundError" ->
              Attempt("normalize", "threw", "ffmpeg_missing")
         [] OTHER -> Attempt("normalize", "threw", "convert_threw")
    /\ UNCHANGED <<storeVars, toolVars>>

\* Line 130.
AudioSetDuration ==
    /\ drv.prog = "audio"
    /\ drv.at = "converted"
    /\ SetDuration(Manager, 1)
    /\ Goto("duration")

\* Lines 131-136.
AudioRecordNormalize ==
    /\ drv.prog = "audio"
    /\ drv.at = "duration"
    /\ AddProcessingStep(Manager, "normalize", "success", <<"output_path">>)
    /\ Goto("record_normalize")

\* Lines 138-141, `except FFmpegNotFoundError`: no return follows.
AudioFFmpegHandler ==
    /\ drv.prog = "audio"
    /\ drv.at = "ffmpeg_missing"
    /\ AddProcessingStep(Manager, "normalize", "failed", <<"error">>)
    /\ drv' = [drv EXCEPT !.at = "record_skipped",
                          !.log = Append(@, "ffmpeg")]

\* Lines 142-144, `except Exception` of the conversion block.
AudioConvertHandler ==
    /\ drv.prog = "audio"
    /\ \/ drv.at = "convert_threw"
       \/ drv.at = "record_normalize" /\ CallRaised
    /\ AddProcessingStep(Manager, "normalize", "failed", <<"error">>)
    /\ drv' = [drv EXCEPT !.at = "record_normalize_failed",
                          !.log = Append(@, "normalize")]

\* Line 145, return 1; an exception of line 144 leaves main instead.
AudioConvertEnd ==
    /\ drv.prog = "audio"
    /\ drv.at = "record_normalize_failed"
    /\ \/ CallReturned /\ End(Returns(1))
       \/ CallRaised /\ End(Raises(lastOp.outcome))
    /\ UNCHANGED <<storeVars, toolVars>>

\* Lines 147-162, the summary: line 157 reads normalized_path, which only
\* line 123 assigns; reading an unassigned local raises UnboundLocalError.
\* An exception of line 141 leaves main before the summary.
AudioSummary ==
    /\ drv.prog = "audio"
    /\ drv.at \in {"record_normalize", "record_skipped"}
    /\ \/ /\ CallReturned
          /\ IF "normalized_path" \in drv.bound
             THEN End(Returns(0))
             ELSE End(Raises("UnboundLocalError"))
       \/ /\ drv.at = "record_skipped"
          /\ CallRaised
          /\ End(Raises(lastOp.outcome))
    /\ UNCHANGED <<storeVars, toolVars>>

(* ----------------------- try_transcription.main ------------------------ *)

\* Line 62, EpisodeManager(args.episode_id), as far as paths go.
TransConstruct ==
    /\ drv.prog = "transcribe"
    /\ drv.at = "start"
    /\ NewManager(EPISODE_ID)
    /\ Goto("constructed")

\* Line 62, the rest of the constructor: the metadata is loaded.
TransOpen ==
    /\ drv.prog = "transcribe"
    /\ drv.at = "constructed"
    /\ Open(Manager)
    /\ Goto("open")

\* Lines 63-66: the constructor raised.
TransNotFound ==
    /\ drv.prog = "transcribe"
    /\ drv.at = "open"
    /\ CallRaised
    /\ EndLogged("not_found", Returns(1))
    /\ UNCHANGED <<storeVars, toolVars>>

\* Lines 79-84: the path of the normalized audio; without the file the run
\* ends with 1.
TransMediaPath(exists) ==
    /\ drv.prog = "transcribe"
    /\ drv.at = "open"
    /\ CallReturned
    /\ GetPath("media", RelPath(<<"normalized.wav">>))
    /\ IF exists
       THEN drv' = [drv EXCEPT !.at = "media_path",
                               !.bound = @ \cup {"audio_path"}]
       ELSE EndLogged("no_audio", Returns(1))

\* Lines 87-88.
TransTranscriptsDir ==
    /\ drv.prog = "transcribe"
    /\ drv.at = "media_path"
    /\ GetPath("transcripts", RelPath(<<>>))
    /\ Goto("transcripts_dir")

\* Line 93 reads episode_metadata.title: with no metadata loaded that is
\* an attribute of None, and the AttributeError leaves main.
TransBanner ==
    /\ drv.prog = "transcribe"
    /\ drv.at = "transcripts_dir"
    /\ IF HasMetadata(Manager)
       THEN Goto("banner")
       ELSE End(Raises("AttributeError"))
    /\ UNCHANGED <<storeVars, toolVars>>

\* Lines 102-141: the model is loaded and the audio transcribed; the work
\* ends normally, with an exception, or with the user's interrupt, which
\* lines 159-161 answer with 130.
Transcribe(outcome) ==
    /\ drv.prog = "transcribe"
    /\ drv.at = "banner"
    /\ CASE outcome = "ok" -> Attempt("transcription", "ok", "transcribed")
         [] outcome = "KeyboardInterrupt" ->
              drv' = [drv EXCEPT !.at = "end", !.result = <<Returns(130)>>,
                        !.attempts = Append(@, [stage |-> "transcription",
                                                work |-> "interrupted"])]
         [] OTHER -> Attempt("transcription", "threw", "transcribe_threw")
    /\ UNCHANGED <<storeVars, toolVars>>

\* Lines 144-154.
TransRecord ==
    /\ drv.prog = "transcribe"
    /\ drv.at = "transcribed"
    /\ AddProcessingStep(Manager, "transcription", "success", <<"model">>)
    /\ Goto("record_transcription")

\* Lines 156-157.
TransDone ==
    /\ drv.prog = "transcribe"
    /\ drv.at = "record_transcription"
    /\ CallReturned
    /\ End(Returns(0))
    /\ UNCHANGED <<storeVars, toolVars>>

\* Lines 162-168, `except Exception`: the error is logged, then the failure
\* recorded.
TransHandler ==
    /\ drv.prog = "transcribe"
    /\ \/ drv.at = "transcribe_threw"
       \/ drv.at = "record_transcription" /\ CallRaised
    /\ AddProcessingStep(Manager, "transcription", "failed", <<"error">>)
    /\ drv' = [drv EXCEPT !.at = "record_transcription_failed",
                          !.log = Append(@, "transcription")]

\* Line 169, return 1; an exception of line 164 leaves main instead.
TransEnd ==
    /\ drv.prog = "transcribe"
    /\ drv.at = "record_transcription_failed"
    /\ \/ CallReturned /\ End(Returns(1))
       \/ CallRaised /\ End(Raises(lastOp.outcome))
    /\ UNCHANGED <<storeVars, toolVars>>

\* sys.exit(main()): the process ends, its manager is gone; the files and
\* directories stay.
EndRun ==
    /\ drv.at = "end"
    /\ pc.at = "idle"
    /\ drv' = [NoRun EXCEPT !.runs = drv.runs]
    /\ lastOp' = Returned("exit", Manager, "ok", NoFile, now)
    /\ mgr' = [m \in Managers |-> NoManager]
    /\ base' = [m \in Managers |-> <<>>]
    /\ calls' = [m \in Managers |-> <<>>]
    /\ resolver' = NoResolver
    /\ pathCalls' = <<>>
    /\ UNCHANGED <<now, file, pc, faults, idCalls, dirs, sumCalls>>

InitDrivers ==
    /\ now = 0
    /\ file \in InitialFiles
    /\ mgr = [m \in Managers |-> NoManager]
    /\ pc = Idle
    /\ lastOp = Running
    /\ base = [m \in Managers |-> <<>>]
    /\ calls = [m \in Managers |-> <<>>]
    /\ faults = 0
    /\ idCalls = <<>>
    /\ PathsIdle
    /\ sumCalls = <<>>
    /\ drv = NoRun

NextDrivers ==
    \/ \E p \in {"audio", "transcribe"} : Start(p)
    \/ \E found \in BOOLEAN : AudioFetch(found)
    \/ AudioConstruct
    \/ AudioCreate
    \/ AudioRecordFetch
    \/ AudioSetupFails
    \/ \E ok \in BOOLEAN : AudioDownload(ok)
    \/ AudioChecksum
    \/ AudioRecordDownload
    \/ AudioDownloadHandler
    \/ AudioDownloadEnd
    \/ \E outcome \in {"ok", "FFmpegNotFoundError", "AudioConversionError"} :
         AudioConvert(outcome)
    \/ AudioSetDuration
    \/ AudioRecordNormalize
    \/ AudioFFmpegHandler
    \/ AudioConvertHandler
    \/ AudioConvertEnd
    \/ AudioSummary
    \/ TransConstruct
    \/ TransOpen
    \/ TransNotFound
    \/ \E exists \in BOOLEAN : TransMediaPath(exists)
    \/ TransTranscriptsDir
    \/ TransBanner
    \/ \E outcome \in {"ok", "Exception", "KeyboardInterrupt"} :
         Transcribe(outcome)
    \/ TransRecord
    \/ TransDone
    \/ TransHandler
    \/ TransEnd
    \/ SaveDump /\ UNCHANGED drv
    \/ SaveDumpFails /\ UNCHANGED drv
    \/ EndRun

SpecDrivers == InitDrivers /\ [][NextDrivers]_vars

(* ============================== properties ============================= *)

\* The file holds one complete, valid metadata document.
Complete(f) == f.exists /\ JsonParses(f.content) /\ Validates(f.content)

\* The document a fresh open would load from the disk now.
OnDisk == LoadMetadata(file, now)

\* The stage names and statuses of a history, in order.
Outline(h) == [i \in 1..Len(h) |-> <<h[i].step, h[i].status>>]

\* Operations that end in save_metadata.
FlushKinds == {"create", "save", "recordStep", "recordChecksum"}

\* Exceptions an operation surfaces to its caller.
ErrorOutcomes ==
    {"OSError", "FileNotFoundError", "AttributeError", "JSONDecodeError",
     "ValidationError"}

\* The exceptions that stand for the design's CorruptStateError.
CorruptStateErrors == {"JSONDecodeError", "ValidationError"}

\* The exception that stands for the design's NotFoundError.
NotFoundErrors == {"FileNotFoundError"}

\* An operation of one of the kinds ks has just returned normally.
ReturnedOk(ks) ==
    pc.at = "idle" /\ lastOp.kind \in ks /\ lastOp.outcome = "ok"

(* C1: append-only ledger.  On every manager that holds metadata,          *)
(* processing_history is the history it was constructed with followed by   *)
(* one entry per add_processing_step call, in call order and unchanged; a  *)
(* call that repeats a stage name adds an entry.                           *)
C1_AppendOnlyLedger ==
    \A m \in Managers :
        HasMetadata(m) => Md(m).processing_history = base[m] \o calls[m]

C1_Witness ==
    \E m \in Managers :
        /\ HasMetadata(m)
        /\ ReturnedOk({"recordStep"})
        /\ Len(calls[m]) = 2
        /\ calls[m][1].step = calls[m][2].step

(* C2: durability atomicity.  While add_processing_step is flushing, and   *)
(* after a crash during that flush, a metadata.json that was complete      *)
(* before the call is still complete.                                      *)
C2_FlushKeepsFileComplete ==
    /\ (pc.at = "dump" /\ pc.kind = "recordStep" /\ Complete(pc.pre))
           => Complete(file)
    /\ (lastOp.kind = "crash" /\ lastOp.outcome = "recordStep"
            /\ Complete(lastOp.pre))
           => Complete(file)

(* C3: all-or-nothing mutation.  When a mutating operation ends with an    *)
(* error, metadata.json is exactly what it was before the operation.       *)
C3_FailedMutationLeavesFile ==
    (lastOp.kind \in FlushKinds /\ lastOp.outcome \in ErrorOutcomes)
        => file = lastOp.pre

(* C4: corrupt-state detection.  Opening an episode whose metadata.json    *)
(* exists but is malformed JSON or lacks a required field raises (the      *)
(* JSON error for the first, the validation error for the second) and      *)
(* yields no manager.                                                      *)
C4_CorruptFileRaises ==
    (lastOp.kind = "open" /\ lastOp.pre.exists /\ ~Complete(lastOp.pre))
        => /\ lastOp.outcome \in CorruptStateErrors
           /\ ~JsonParses(lastOp.pre.content)
                  => lastOp.outcome = "JSONDecodeError"
           /\ JsonParses(lastOp.pre.content)
                  => lastOp.outcome = "ValidationError"
           /\ ~mgr[lastOp.m].live

C4_Witness ==
    /\ lastOp.kind = "open"
    /\ lastOp.pre.exists
    /\ JsonParses(lastOp.pre.content)
    /\ lastOp.outcome = "ValidationError"

(* C5: unknown episode.  Opening an identity that has no metadata.json     *)
(* fails with the not-found error and yields no manager.                   *)
C5_OpenUnknownFails ==
    (lastOp.kind = "open" /\ ~lastOp.pre.exists)
        => /\ lastOp.outcome \in NotFoundErrors
           /\ ~mgr[lastOp.m].live

(* C6: persistence round trip.  After a create or add_processing_step      *)
(* returned, opening the episode from disk loads a history with the same   *)
(* length, stage names and statuses, in the same order, as the manager's.  *)
C6_ReopenShowsHistory ==
    ReturnedOk({"create", "recordStep"})
        => LET r == OnDisk
           IN  /\ r.exc = "none"
               /\ r.metadata # <<>>
               /\ Outline(r.metadata[1].processing_history)
                      = Outline(Md(lastOp.m).processing_history)

C6_Witness ==
    /\ ReturnedOk({"recordStep"})
    /\ OnDisk.metadata # <<>>
    /\ Outline(OnDisk.metadata[1].processing_history)
           = << <<"download", "success">>, <<"normalize", "skipped">> >>

(* C7: flush on every step.  When add_processing_step or                   *)
(* set_audio_checksum returns, metadata.json holds the whole in-memory     *)
(* document, the entry just appended and any field assigned since the      *)
(* previous flush included.                                                *)
C7_FlushHoldsWholeDocument ==
    ReturnedOk({"recordStep", "recordChecksum"})
        => LET r == OnDisk
           IN  /\ r.exc = "none"
               /\ r.metadata = <<Md(lastOp.m)>>
               /\ lastOp.kind = "recordStep"
                      => /\ calls[lastOp.m] # <<>>
                         /\ r.metadata # <<>>
                         /\ r.metadata[1].processing_history # <<>>
                         /\ Last(r.metadata[1].processing_history)
                                = Last(calls[lastOp.m])

C7_Witness ==
    /\ ReturnedOk({"recordStep"})
    /\ Md(lastOp.m).duration_seconds = <<1>>
    /\ Md(lastOp.m).audio_checksum # <<>>
    /\ Len(calls[lastOp.m]) = 1
    /\ base[lastOp.m] = <<>>

(* C8: closed status enumeration.  Every entry of every                    *)
(* processing_history has a status in {success, failed, in_progress}.      *)
C8_StatusesClosed ==
    \A m \in Managers :
        HasMetadata(m) =>
            \A i \in 1..Len(Md(m).processing_history) :
                Md(m).processing_history[i].status \in ValidStatuses

(* C9: updated_at >= created_at: in the metadata as constructed with its   *)
(* default timestamps, in every manager's metadata, and in every complete  *)
(* document on disk.                                                       *)
C9_UpdatedNotBeforeCreated ==
    /\ \A t1 \in 0..MaxTime : \A t2 \in Readings(t1) :
           DefaultMetadata("Nuacht a 6", t1, t2).updated_at
               >= DefaultMetadata("Nuacht a 6", t1, t2).created_at
    /\ \A m \in Managers :
           HasMetadata(m) => Md(m).updated_at >= Md(m).created_at
    /\ LET r == OnDisk
       IN  r.metadata # <<>>
               => r.metadata[1].updated_at >= r.metadata[1].created_at

C9_Witness ==
    /\ ReturnedOk({"open"})
    /\ HasMetadata(lastOp.m)
    /\ Md(lastOp.m).processing_history # <<>>
    /\ Md(lastOp.m).updated_at > Md(lastOp.m).created_at

(* C10 as stated: after a create followed by at least one                  *)
(* add_processing_step, the record on disk has updated_at strictly later   *)
(* than created_at.                                                        *)
C10_ReopenedStrictlyLater ==
    (ReturnedOk({"recordStep"}) /\ Complete(file))
        => OnDisk.metadata[1].updated_at > OnDisk.metadata[1].created_at

(* C10, amended: every operation that flushes sets updated_at, in memory   *)
(* and on disk, to the clock reading of that operation; updated_at never   *)
(* decreases, in a manager or on disk; the record on disk has updated_at   *)
(* not earlier than created_at.                                            *)
C10_Bumped ==
    ReturnedOk(FlushKinds)
        => /\ Md(lastOp.m).updated_at = lastOp.t
           /\ LET r == OnDisk
              IN  /\ r.metadata # <<>>
                  /\ r.metadata[1].updated_at = lastOp.t
                  /\ r.metadata[1].updated_at >= r.metadata[1].created_at

C10_NeverDecreases ==
    /\ \A m \in Managers :
           (HasMetadata(m) /\ HasMetadata(m)')
               => Md(m)'.updated_at >= Md(m).updated_at
    /\ (file' # file /\ Complete(file') /\ Complete(file))
           => LoadMetadata(file', now').metadata[1].updated_at
                  >= LoadMetadata(file, now).metadata[1].updated_at

C10_UpdatedAtBumped == [][C10_Bumped' /\ C10_NeverDecreases]_vars

C10_Witness ==
    /\ ReturnedOk({"recordStep"})
    /\ Complete(file)
    /\ OnDisk.metadata[1].updated_at > OnDisk.metadata[1].created_at
    /\ Md(lastOp.m).updated_at = lastOp.t

\* The timestamps of a history, in order.
TimesOf(h) == [i \in 1..Len(h) |-> h[i].timestamp]

\* Timestamps never go back along the sequence.
Chronological(h) ==
    \A i \in 1..(Len(h) - 1) : h[i].timestamp <= h[i + 1].timestamp

(* C11: insertion order is chronological order.  In every manager and in   *)
(* every complete document on disk the timestamps of processing_history    *)
(* are non-decreasing along the sequence; the entries a manager was        *)
(* constructed with stay at the front and the entries of its calls follow  *)
(* with the clock readings of those calls, none moved and none dropped.    *)
C11_ChronologicalOrder ==
    /\ \A m \in Managers :
           HasMetadata(m) =>
               /\ Chronological(Md(m).processing_history)
               /\ IsPrefix(base[m], Md(m).processing_history)
               /\ TimesOf(Md(m).processing_history)
                      = TimesOf(base[m]) \o TimesOf(calls[m])
    /\ LET r == OnDisk
       IN  r.metadata # <<>>
               => Chronological(r.metadata[1].processing_history)

C11_Witness ==
    /\ ReturnedOk({"recordStep"})
    /\ Complete(file)
    /\ LET h == OnDisk.metadata[1].processing_history
       IN  Len(h) = 2 /\ h[1].timestamp < h[2].timestamp

(* ------------------------- create_episode_id --------------------------- *)

\* The show name as the design normalises it: lower case, spaces and
\* hyphens turned into underscores.
NormalChar(c) ==
    CASE c = "N" -> "n" [] c = "A" -> "a" [] c \in {" ", "-"} -> "_"
      [] OTHER -> c

NormalShow(show) == [i \in 1..Len(show) |-> NormalChar(show[i])]

\* The publish time truncated to the minute.
MinuteOf(d) == <<d.year, d.month, d.day, d.hour, d.minute>>

\* The three values an identity is derived from.
KeyOf(c) == <<c.source, NormalShow(c.show), MinuteOf(c.pub_date)>>

(* C12: identity determinism.  Two create_episode_id calls whose inputs    *)
(* agree on source, normalised show and minute-truncated publish time      *)
(* return the same string, so two publish times within one minute give     *)
(* one identity; the string is source_show_YYYYMMDD_HHMM with the          *)
(* normalised show and the date and minute of the publish time.            *)
C12_IdentityDeterminism ==
    \A i, j \in 1..Len(idCalls) :
        /\ KeyOf(idCalls[i]) = KeyOf(idCalls[j])
               => idCalls[i].result = idCalls[j].result
        /\ idCalls[i].result.exc = "none"
        /\ LET v == idCalls[i].result.value
               d == idCalls[i].pub_date
           IN  /\ Len(v) >= 14
               /\ SubSeq(v, 1, Len(v) - 14)
                      = idCalls[i].source \o <<"_">>
                            \o NormalShow(idCalls[i].show)
               /\ SubSeq(v, Len(v) - 13, Len(v))
                      = <<"_", "2", "0", "2", "5", "1", "0", "1", "8", "_",
                          "1", "8", "0", Digit(d.minute)>>

C12_Witness ==
    /\ Len(idCalls) = 2
    /\ idCalls[1].show = <<"N">>
    /\ idCalls[2].show = <<"n">>
    /\ idCalls[1].pub_date.second # idCalls[2].pub_date.second
    /\ idCalls[1].result = idCalls[2].result

(* C13: identity uniqueness.  Two create_episode_id calls that differ in   *)
(* source, in normalised show or in minute-truncated publish time never    *)
(* return the same string.                                                 *)
C13_IdentityUnique ==
    \A i, j \in 1..Len(idCalls) :
        idCalls[i].result = idCalls[j].result
            => KeyOf(idCalls[i]) = KeyOf(idCalls[j])

(* C14: empty show.  create_episode_id fails with the invalid-input error  *)
(* when the show is empty after normalisation, and no identity has an      *)
(* empty show component.                                                   *)
C14_EmptyShowRejected ==
    \A i \in 1..Len(idCalls) :
        NormalShow(idCalls[i].show) = <<>>
            => idCalls[i].result.exc = "InvalidInputError"

(* ------------------------------- paths --------------------------------- *)

\* A path made absolute from the working directory.
Absolute(p) == IF p.abs THEN p ELSE Join(Cwd, p)

\* The components of a path with every ".." resolved against its parent.
RECURSIVE Collapse(_, _)
Collapse(parts, acc) ==
    IF parts = <<>> THEN acc
    ELSE IF Head(parts) = ".."
         THEN Collapse(Tail(parts),
                       IF acc = <<>> THEN acc ELSE Prefix(acc, Len(acc) - 1))
         ELSE Collapse(Tail(parts), Append(acc, Head(parts)))

\* The file or directory the path names lies in the data root.
InsideDataRoot(p) ==
    IsPrefix(Collapse(Absolute(DataRoot).parts, <<>>),
             Collapse(Absolute(p).parts, <<>>))

\* The directory of a category in the layout of an episode.
LayoutDir(episode_id, category) ==
    RelPath(<<"data", "episodes", episode_id, category>>)

\* A directory and every directory above it.
WithAncestors(p) ==
    {[abs |-> p.abs, parts |-> Prefix(p.parts, k)] : k \in 1..Len(p.parts)}

(* C15: path containment.  Every path a get_*_path call returns, whatever  *)
(* the filename ("..", absolute), lies inside the data root.               *)
C15_PathContained ==
    \A i \in 1..Len(pathCalls) :
        pathCalls[i].result.exc = "none"
            => InsideDataRoot(pathCalls[i].result.path[1])

(* C16: idempotent directory creation.  No get_*_path call fails because   *)
(* a directory exists already; of two calls in a row for the same category *)
(* and filename, the first having returned, the second returns the same    *)
(* path if it returns, and leaves the directory tree as the first left it. *)
C16_ResolveIdempotent ==
    /\ \A i \in 1..Len(pathCalls) :
           pathCalls[i].result.exc # "FileExistsError"
    /\ \A i \in 1..(Len(pathCalls) - 1) :
           (/\ pathCalls[i].category = pathCalls[i + 1].category
            /\ pathCalls[i].filename = pathCalls[i + 1].filename
            /\ pathCalls[i].result.exc = "none")
               => /\ pathCalls[i + 1].result.exc = "none"
                      => pathCalls[i + 1].result.path = pathCalls[i].result.path
                  /\ pathCalls[i + 1].after = pathCalls[i].after

C16_Witness ==
    /\ Len(pathCalls) = 2
    /\ pathCalls[1].category = pathCalls[2].category
    /\ pathCalls[1].filename = pathCalls[2].filename
    /\ pathCalls[1].result.exc = "none"
    /\ pathCalls[2].result.exc = "none"
    /\ pathCalls[1].after # pathCalls[1].before
    /\ pathCalls[2].result.path = pathCalls[1].result.path
    /\ dirs = pathCalls[1].after

(* C17: artifact layout.  A get_*_path call for category c on the manager  *)
(* of episode id returns data/episodes/id/c/filename; the manager's        *)
(* metadata file is data/episodes/id/metadata.json; after the call         *)
(* data/episodes/id/c exists, and the call has made no directory but that  *)
(* one and those above it.                                                 *)
C17_ArtifactLayout ==
    /\ resolver.live
           => resolver.metadata_path
                  = RelPath(<<"data", "episodes", resolver.episode_id,
                              "metadata.json">>)
    /\ \A i \in 1..Len(pathCalls) :
           LET c == pathCalls[i]
               d == LayoutDir(resolver.episode_id, c.category)
           IN  c.result.exc = "none"
                   => /\ c.result.path[1]
                             = [abs |-> FALSE,
                                parts |-> d.parts \o c.filename.parts]
                      /\ d \in c.after
                      /\ (c.after \ c.before) \subseteq WithAncestors(d)

(* ------------------------------ checksums ------------------------------ *)

(* C18: set_audio_checksum on a readable file returns the bare hex digest  *)
(* of the file's bytes; when it has returned, metadata.audio_checksum is   *)
(* "sha256:" followed by that digest, in the manager and in the document   *)
(* on disk.                                                                *)
C18_ChecksumStored ==
    ReturnedOk({"recordChecksum"})
        => LET r == OnDisk
           IN  /\ lastOp.ret
                      = <<Sha256Hex(Bytes("original.mp3", 1, 20000))>>
               /\ Md(lastOp.m).audio_checksum
                      = << <<"sha256:", lastOp.ret[1]>> >>
               /\ r.exc = "none"
               /\ r.metadata # <<>>
               /\ r.metadata[1].audio_checksum
                      = << <<"sha256:", lastOp.ret[1]>> >>

C18_Witness ==
    /\ ReturnedOk({"recordChecksum"})
    /\ lastOp.ret # <<>>
    /\ Complete(file)
    /\ OnDisk.metadata[1].audio_checksum # <<>>
    /\ OnDisk.metadata[1].processing_history # <<>>

\* The bytes the reads of a call returned, one after the other.
RECURSIVE ReadBack(_)
ReadBack(reads) ==
    IF reads = <<>> THEN <<>>
    ELSE Concat(ReadBack(Prefix(reads, Len(reads) - 1)), Last(reads))

(* C19: checksum round trip.  A compute_file_checksum call that meets no   *)
(* error returns the SHA-256 of the whole file taken in one piece; its     *)
(* reads are chunks of at most 8192 bytes that follow each other from the  *)
(* first byte to the last, each byte once, and end with one empty read;    *)
(* two such calls on the same file return the same digest.                 *)
C19_ChecksumRoundTrip ==
    \A i \in 1..Len(sumCalls) :
        LET c == sumCalls[i]
            n == AudioSize(c.file)
        IN  c.result.exc = "none"
                => /\ c.result.value
                          = <<Sha256Hex(Bytes(c.file, 1, n))>>
                   /\ ReadBack(c.result.reads) = Bytes(c.file, 1, n)
                   /\ Len(c.result.reads) = (n + 8191) \div 8192 + 1
                   /\ Last(c.result.reads) = <<>>
                   /\ \A k \in 1..(Len(c.result.reads) - 1) :
                          /\ c.result.reads[k] # <<>>
                          /\ c.result.reads[k][1].hi - c.result.reads[k][1].lo
                                 < 8192
                   /\ \A j \in 1..Len(sumCalls) :
                          (sumCalls[j].file = c.file
                               /\ sumCalls[j].result.exc = "none")
                              => sumCalls[j].result.value = c.result.value

C19_Witness ==
    /\ Len(sumCalls) = 2
    /\ sumCalls[1].file = "original.mp3"
    /\ sumCalls[2].file = "original.mp3"
    /\ sumCalls[1].result.exc = "none"
    /\ sumCalls[2].result.exc = "none"
    /\ Len(sumCalls[1].result.reads) = 4

(* C20: compute_file_checksum errors.  For a file that does not exist the  *)
(* call ends with the not-found error, and when a read fails it ends with  *)
(* OSError; in neither case is a digest returned.                          *)
C20_ChecksumErrors ==
    \A i \in 1..Len(sumCalls) :
        LET c == sumCalls[i]
        IN  /\ ~AudioExists(c.file)
                   => /\ c.result.exc \in NotFoundErrors
                      /\ c.result.value = <<>>
            /\ (AudioExists(c.file)
                    /\ c.bad \in 1..((AudioSize(c.file) + 8191) \div 8192 + 1))
                   => /\ c.result.exc = "OSError"
                      /\ c.result.value = <<>>

C20_Witness ==
    /\ Len(sumCalls) = 2
    /\ sumCalls[1].file = "missing.mp3"
    /\ sumCalls[1].result.exc = "FileNotFoundError"
    /\ sumCalls[2].file = "two_chunks.bin"
    /\ sumCalls[2].bad = 2
    /\ sumCalls[2].result.exc = "OSError"

(* ------------------------------- create -------------------------------- *)

(* C21: create is last-writer-wins.  When a create (EpisodeManager(id,     *)
(* metadata) followed by save_metadata) has returned, metadata.json is the *)
(* dump of the record the caller gave, and only that: the document on disk *)
(* equals the manager's metadata, its processing_history is empty and it   *)
(* has no audio_checksum, whatever the file held before.                   *)
C21_CreateReplaces ==
    ReturnedOk({"create"})
        => LET r == OnDisk
           IN  /\ file.content = Dump(Md(lastOp.m))
               /\ r.exc = "none"
               /\ r.metadata = mgr[lastOp.m].metadata
               /\ r.metadata[1].processing_history = <<>>
               /\ r.metadata[1].audio_checksum = <<>>
               /\ r.metadata[1].duration_seconds = <<>>
               /\ r.metadata[1].created_at <= r.metadata[1].updated_at
               /\ lastOp.pre.exists
                      => LET old == LoadMetadata(lastOp.pre, now)
                         IN  (old.exc = "none" /\ old.metadata # <<>>)
                                 => old.metadata[1].created_at
                                        <= r.metadata[1].created_at

C21_Witness ==
    /\ ReturnedOk({"create"})
    /\ Complete(lastOp.pre)
    /\ LET old == LoadMetadata(lastOp.pre, now).metadata[1]
       IN  /\ old.processing_history # <<>>
           /\ old.audio_checksum # <<>>
           /\ old.created_at < Md(lastOp.m).created_at

(* --------------------------- pipeline drivers -------------------------- *)

\* The entries of a history that belong to stage s, in order.
StageEntries(h, s) == SelectSeq(h, LAMBDA e : e.step = s)

\* The attempts of stage s in the current run.
AttemptsOf(s) == SelectSeq(drv.attempts, LAMBDA a : a.stage = s)

\* The stages the drivers attempt inside a try block with a failure handler.
HandledStages == {"download", "normalize", "transcription"}

\* A history has entries of stage s and the last of them has status st.
LastStatusIs(h, s, st) ==
    LET es == StageEntries(h, s)
    IN  es # <<>> /\ Last(es).status = st

(* C22: failures are recorded.  When a run of a driver has ended, every    *)
(* stage it attempted whose work did not end normally has a ledger entry,  *)
(* and the last entry of that stage has status failed, in the manager's    *)
(* processing_history and in the document on disk.                         *)
C22_FailuresRecorded ==
    (drv.at = "end" /\ HasMetadata(Manager))
        => \A i \in 1..Len(drv.attempts) :
             LET a == drv.attempts[i]
                 r == OnDisk
             IN  a.work # "ok"
                   => /\ LastStatusIs(Md(Manager).processing_history,
                                      a.stage, "failed")
                      /\ r.exc = "none"
                      /\ r.metadata # <<>>
                      /\ LastStatusIs(r.metadata[1].processing_history,
                                      a.stage, "failed")

(* C23: a failed recordStep does not mask the stage failure.  When the     *)
(* failure handler of the download or of the transcription has logged the  *)
(* stage's error and its add_processing_step(failed) call raised, main     *)
(* still ends the way the handler ends it, by returning 1, with the        *)
(* stage's error the first error in the log.                               *)
C23_StageFailureNotMasked ==
    (/\ drv.at = "end"
     /\ drv.log # <<>>
     /\ Last(drv.log) \in {"download", "transcription"}
     /\ lastOp.kind = "recordStep"
     /\ lastOp.outcome # "ok")
        => /\ drv.log[1] \in {"download", "transcription"}
           /\ drv.result = <<Returns(1)>>

\* The place of a stage in the audio pipeline.
StageRank(s) ==
    CASE s = "rss_fetch" -> 1
      [] s = "download" -> 2
      [] s = "normalize" -> 3
      [] OTHER -> 4

(* C24: stage ordering in the audio pipeline.  In a run of                 *)
(* try_audio_pipeline.main the add_processing_step calls come in the order *)
(* rss_fetch, download, normalize; a normalize entry is recorded only      *)
(* after a download entry with status success of the same run; and once    *)
(* the download's failure handler has run, the run ends with result 1 and  *)
(* normalize is not attempted.                                             *)
C24_StageOrder ==
    drv.prog = "audio"
        => LET h == calls[Manager]
           IN  /\ \A i, j \in 1..Len(h) :
                     i < j => StageRank(h[i].step) <= StageRank(h[j].step)
               /\ \A j \in 1..Len(h) :
                     h[j].step = "normalize"
                        => \E i \in 1..(j - 1) :
                             h[i].step = "download" /\ h[i].status = "success"
               /\ "download" \in {drv.log[k] : k \in 1..Len(drv.log)}
                     => /\ AttemptsOf("normalize") = <<>>
                        /\ drv.at = "end" => drv.result = <<Returns(1)>>

(* C25: skipped conversion completes.  When ffmpeg is not installed, a run *)
(* of try_audio_pipeline.main whose download succeeded records normalize   *)
(* with status failed, reaches the summary and returns 0; no error leaves  *)
(* main.                                                                   *)
C25_SkippedConversionCompletes ==
    (/\ drv.prog = "audio"
     /\ drv.at = "end"
     /\ "ffmpeg" \in {drv.log[k] : k \in 1..Len(drv.log)}
     /\ lastOp.outcome = "ok")
        => /\ LastStatusIs(Md(Manager).processing_history, "normalize",
                           "failed")
           /\ drv.result = <<Returns(0)>>

(* C30: one outcome per stage attempt.  In a run of a driver, the entries  *)
(* a stage has added to processing_history are never more than the         *)
(* attempts of that stage, in the manager and on disk; one attempt never   *)
(* leaves both a success and a failed entry.                               *)
C30_OneEntryPerAttempt ==
    (drv.prog # "none" /\ HasMetadata(Manager))
        => \A s \in HandledStages :
             LET r == OnDisk
                 n == Len(AttemptsOf(s))
                 before == Len(StageEntries(base[Manager], s))
             IN  /\ Len(StageEntries(calls[Manager], s)) <= n
                 /\ Len(StageEntries(Md(Manager).processing_history, s))
                        <= before + n
                 /\ (r.exc = "none" /\ r.metadata # <<>>)
                        => Len(StageEntries(r.metadata[1].processing_history,
                                            s)) <= before + n

(* ----------------------------- two writers ----------------------------- *)

(* C26: multi-writer ledger safety.  With two managers opened on the same  *)
(* identity and no write failing, whenever no call is in progress the      *)
(* processing_history in metadata.json holds every step that an            *)
(* add_processing_step call of either manager has flushed.                 *)
C26_NoStepLost ==
    pc.at = "idle"
        => LET r == OnDisk
           IN  /\ r.exc = "none"
               /\ r.metadata # <<>>
               /\ \A m \in Managers :
                      \A i \in 1..Len(calls[m]) :
                          \E j \in 1..Len(r.metadata[1].processing_history) :
                              r.metadata[1].processing_history[j]
                                  = calls[m][i]

(* C26, amended: a writer's flush keeps that writer's history.  When an    *)
(* add_processing_step call has returned, the processing_history in        *)
(* metadata.json is the history the calling manager loaded when it was     *)
(* opened followed by the steps recorded through that manager, in order;   *)
(* steps another manager flushed since then are not in it.                 *)
C26_WriterHistoryKept ==
    ReturnedOk({"recordStep"})
        => LET r == OnDisk
           IN  /\ r.exc = "none"
               /\ r.metadata # <<>>
               /\ r.metadata[1].processing_history
                      = base[lastOp.m] \o calls[lastOp.m]

C26_Witness ==
    /\ ReturnedOk({"recordStep"})
    /\ lastOp.m = "m2"
    /\ calls["m1"] # <<>>
    /\ calls["m2"] # <<>>
    /\ base["m2"] = <<>>
    /\ OnDisk.metadata[1].processing_history = calls["m2"]

(* --------------------------- frame conditions -------------------------- *)

\* The metadata manager m holds after the step.
MdNext(m) == mgr'[m].metadata[1]

\* An operation of kind k on the manager begins (and, when it raises at
\* once, ends) in this step.
Begins(k) ==
    /\ pc.at = "idle"
    /\ \/ pc'.at = "dump" /\ pc'.kind = k
       \/ pc'.at = "idle" /\ lastOp'.kind = k /\ lastOp' # lastOp

\* The fields of md that no operation of the manager assigns.
Fixed(md) ==
    <<md.episode_id, md.source, md.show, md.title, md.original_url,
      md.created_at, md.pub_date>>

C27_Step ==
    LET m == Manager
        both == HasMetadata(m) /\ mgr'[m].live /\ mgr'[m].metadata # <<>>
    IN  /\ both => Fixed(MdNext(m)) = Fixed(Md(m))
        /\ (both /\ Begins("recordStep"))
              => /\ MdNext(m).audio_checksum = Md(m).audio_checksum
                 /\ MdNext(m).duration_seconds = Md(m).duration_seconds
                 /\ Len(MdNext(m).processing_history)
                        = Len(Md(m).processing_history) + 1
                 /\ IsPrefix(Md(m).processing_history,
                             MdNext(m).processing_history)
        /\ (both /\ Begins("recordChecksum"))
              => /\ MdNext(m).processing_history = Md(m).processing_history
                 /\ MdNext(m).duration_seconds = Md(m).duration_seconds
        /\ (pathCalls' # pathCalls /\ pathCalls' # <<>>)
              => /\ mgr' = mgr
                 /\ file' = file
                 /\ resolver' = resolver
        /\ pc.at = "dump" => mgr' = mgr
        /\ (resolver.live /\ resolver'.live) => resolver' = resolver
        /\ (mgr[m].live /\ mgr'[m].live /\ resolver.live)
              => /\ resolver'.episode_id = EPISODE_ID
                 /\ resolver'.metadata_path
                        = RelPath(<<"data", "episodes", EPISODE_ID,
                                    "metadata.json">>)

(* C27: frame conditions.  add_processing_step changes only                *)
(* processing_history (by one appended entry) and updated_at;              *)
(* set_audio_checksum changes only audio_checksum and updated_at; a        *)
(* get_*_path call changes neither the manager's metadata nor              *)
(* metadata.json; and no step of a run changes episode_id, source, show,   *)
(* title, original_url or created_at of the metadata a manager holds, nor  *)
(* the manager's episode_id and paths.                                     *)
C27_FrameConditions == [][C27_Step]_vars

C27_Witness ==
    /\ drv.prog = "transcribe"
    /\ Len(pathCalls) = 2
    /\ ReturnedOk({"recordStep"})
    /\ Md(Manager).audio_checksum # <<>>
    /\ Md(Manager).duration_seconds # <<>>
    /\ Len(Md(Manager).processing_history) >= 4

(* ---------------------------- failed checksum -------------------------- *)

C28_Step ==
    \A m \in Writers :
        (\/ SetAudioChecksum(m, "missing.mp3")
         \/ SetAudioChecksumReadFails(m, "original.mp3"))
            => /\ lastOp'.kind = "recordChecksum"
               /\ lastOp'.outcome \in {"FileNotFoundError", "OSError"}
               /\ mgr' = mgr
               /\ file' = file
               /\ pc' = pc

(* C28: a failed checksum leaves the episode untouched.  A                 *)
(* set_audio_checksum call on a file that is missing, or whose read fails, *)
(* ends with the error (FileNotFoundError, OSError) and leaves the         *)
(* manager's metadata, audio_checksum, updated_at and processing_history   *)
(* included, and metadata.json exactly as they were.                       *)
C28_FailedChecksumNoEffect == [][C28_Step]_vars

C28_Witness ==
    /\ pc.at = "idle"
    /\ lastOp.kind = "recordChecksum"
    /\ lastOp.outcome = "FileNotFoundError"
    /\ HasMetadata(lastOp.m)
    /\ Md(lastOp.m).audio_checksum # <<>>
    /\ Md(lastOp.m).processing_history # <<>>
    /\ Complete(file)
    /\ OnDisk.metadata = mgr[lastOp.m].metadata

(* ------------------------ no record out of nothing --------------------- *)

\* One of the mutating operations is called on manager m.
Mutates(m) ==
    \/ SaveMetadata(m)
    \/ \E a \in StepInputs : AddProcessingStep(m, a[1], a[2], a[3])
    \/ \E a \in AudioFiles : SetAudioChecksum(m, a)

C29_Step ==
    /\ \A m \in Managers :
           (mgr[m].live /\ mgr[m].metadata = <<>> /\ Mutates(m))
               => /\ lastOp'.outcome \in
                         {"AttributeError", "FileNotFoundError", "OSError"}
                  /\ file' = file
                  /\ mgr' = mgr
                  /\ pc' = pc
    /\ file' # file
           => LET w == IF pc.at = "dump" THEN pc.m ELSE pc'.m
              IN  /\ mgr'[w].metadata # <<>>
                  /\ ~file.exists => (pc'.at = "dump" /\ pc'.kind = "create")
    /\ (resolver' # resolver \/ dirs' # dirs \/ pathCalls' # pathCalls)
           => file' = file
    /\ (\E m \in Managers : ~mgr[m].live /\ mgr'[m].live /\ ~HasMetadata(m)')
           => file' = file

(* C29: no record out of nothing.  On a manager that was constructed for   *)
(* an identity without metadata.json and was given no metadata, each of    *)
(* add_processing_step, set_audio_checksum and save_metadata fails and     *)
(* changes nothing; constructing that manager and the get_*_path calls     *)
(* leave metadata.json alone; and the file comes into existence only by    *)
(* the save of a manager that was given metadata.                          *)
C29_NoRecordOutOfNothing == [][C29_Step]_vars

C29_Witness ==
    /\ ~file.exists
    /\ mgr["m1"].live
    /\ mgr["m1"].metadata = <<>>
    /\ lastOp.m = "m1"
    /\ lastOp.kind = "recordStep"
    /\ lastOp.outcome = "AttributeError"
    /\ resolver.live
    /\ Len(pathCalls) = MaxResolves

====
